---- MODULE Spec2Model ----
(***************************************************************************)
(* Automappa: the refinement table of RefinementDataSource                 *)
(* (automappa/pages/mag_refinement/source.py), the k-mer embedding         *)
(* pipeline of automappa/tasks.py and the refinement store of the legacy   *)
(* refinement page (apps/mag_refinement.py).                               *)
(***************************************************************************)
EXTENDS Integers, Sequences, FiniteSets, TLC

VARIABLES
    Refinement,   \* the refinement table: id -> row (with its contigs relationship)
    next_id,      \* the next autoincrement primary key of the refinement table
    last,         \* the data-source call that returned last, with its arguments and result
    call,         \* the arguments of the preprocess_embeddings call, once it is made
    broker,       \* the task queue: task -> its messages (their arguments) waiting for a worker
    task,         \* per task: its state, the arguments it received, its result, its runs
    tables,       \* the names of the tables table_to_db has written
    refinements_clusters_store, \* legacy page: the data of the refinements-clusters-store
    selected_data,              \* legacy page: selectedData of the 2D scatterplot
    save_toggle,                \* legacy page: value of the save-selections-toggle
    hide_selection_toggle,      \* legacy page: value of the hide-selections-toggle
    scatterplot_2d,             \* legacy page: the contigs drawn in the 2D scatterplot
    triggered,                  \* legacy page: the input whose change fired the callbacks last
    fig_call,     \* figures: the call of a figure function, with its arguments
    fig_result,   \* figures: what that call returned or raised
    session,      \* per database session: where its save stands and what it has loaded
    n_clicks,     \* save button: its n_clicks property
    disabled,     \* save button: its disabled property
    button_selected_data,  \* refinement page: selectedData of the 2D scatterplot
    metagenome_id_store,   \* refinement page: the data of the metagenome id store
    button_triggered       \* refinement page: the input whose change fired the callbacks last

dbVars == <<Refinement, next_id, last>>

pipelineVars == <<call, broker, task, tables>>

pageVars ==
    <<refinements_clusters_store, selected_data, save_toggle, hide_selection_toggle,
      scatterplot_2d, triggered>>

figVars == <<fig_call, fig_result>>

sessVars == <<session>>

buttonVars ==
    <<n_clicks, disabled, button_selected_data, metagenome_id_store, button_triggered>>

vars == <<dbVars, pipelineVars, pageVars, figVars, sessVars, buttonVars>>

(***************************************************************************)
(* Bounds                                                                  *)
(***************************************************************************)
\* rows the refinement table may ever have held (caps the primary key)
MaxRefinementId == 4

(***************************************************************************)
(* The contig table.  Headers are not unique across metagenomes: contigs   *)
(* 1 and 3 carry the same header in different metagenomes.                 *)
(***************************************************************************)
Metagenomes == {1, 2}

Contig ==
    <<[metagenome_id |-> 1, header |-> "k1"],
      [metagenome_id |-> 1, header |-> "k2"],
      [metagenome_id |-> 2, header |-> "k1"]>>

ContigIds == DOMAIN Contig

\* the headers a selection may name; "k9" is the header of no contig
Headers == {"k1", "k2", "k9"}

\* `before` is the set of current refinements of the metagenome when a save was called
NoCall == [op |-> "none", metagenome_id |-> 0, headers |-> {}, ret |-> 0, before |-> {}]

\* the binnings the loader may have left in the table before the page is used
InitialRefinement(m, cs) ==
    [metagenome_id |-> m, contigs |-> cs, outdated |-> FALSE, initial_refinement |-> TRUE]

InitialTables ==
    { <<>>,
      <<InitialRefinement(1, {1, 2})>>,
      <<InitialRefinement(1, {1}), InitialRefinement(2, {3})>>,
      <<InitialRefinement(1, {1}), InitialRefinement(1, {2}), InitialRefinement(2, {3})>> }

(***************************************************************************)
(* RefinementDataSource                                                    *)
(***************************************************************************)
\* variant: the metagenome filter of the select is missing
select_contigs_any_metagenome(metagenome_id, headers) ==
    {c \in ContigIds : Contig[c].header \in headers}

\* select(Contig).where(Contig.metagenome_id == metagenome_id, Contig.header.in_(headers))
select_contigs(metagenome_id, headers) ==
    {c \in ContigIds : Contig[c].metagenome_id = metagenome_id /\ Contig[c].header \in headers}

\* contig.refinements
contig_refinements(R, c) == {r \in DOMAIN R : c \in R[r].contigs}

\* select(Refinement).where(metagenome_id == metagenome_id, outdated == False)
current_refinements(R, metagenome_id) ==
    {r \in DOMAIN R : R[r].metagenome_id = metagenome_id /\ ~R[r].outdated}

\* variant: only the refinements of one of the contigs are marked
mark_outdated_one_contig(R, contigs) ==
    [r \in DOMAIN R |->
        IF contigs # {} /\ r \in contig_refinements(R, CHOOSE c \in contigs : TRUE)
        THEN [R[r] EXCEPT !.outdated = TRUE]
        ELSE R[r]]

\* variant: only user refinements are marked, initial ones are skipped
mark_outdated_skip_initial(R, contigs) ==
    [r \in DOMAIN R |->
        IF (\E c \in contigs : r \in contig_refinements(R, c)) /\ ~R[r].initial_refinement
        THEN [R[r] EXCEPT !.outdated = TRUE]
        ELSE R[r]]

\* variant: the touched refinements are deleted instead of being marked
mark_outdated_by_delete(R, contigs) ==
    [r \in {x \in DOMAIN R : ~\E c \in contigs : x \in contig_refinements(R, c)} |-> R[r]]

\* for contig in contigs: for refinement in contig.refinements: refinement.outdated = True
mark_outdated(R, contigs) ==
    [r \in DOMAIN R |->
        IF \E c \in contigs : r \in contig_refinements(R, c)
        THEN [R[r] EXCEPT !.outdated = TRUE]
        ELSE R[r]]

\* variant: the new row is flagged as an initial refinement
new_refinement_initial(contigs, metagenome_id) ==
    [metagenome_id |-> metagenome_id, contigs |-> contigs,
     outdated |-> FALSE, initial_refinement |-> TRUE]

\* Refinement(contigs=contigs, metagenome_id=metagenome_id, outdated=False, initial_refinement=False)
new_refinement(contigs, metagenome_id) ==
    [metagenome_id |-> metagenome_id, contigs |-> contigs,
     outdated |-> FALSE, initial_refinement |-> FALSE]

\* session.add(refinement); session.commit()
session_add(R, id, row) ==
    [r \in DOMAIN R \cup {id} |-> IF r = id THEN row ELSE R[r]]

\* the call, on the refinement table
save_selections(metagenome_id, headers) ==
    /\ next_id <= MaxRefinementId
    /\ LET contigs == select_contigs(metagenome_id, headers)
       IN  Refinement' = session_add(mark_outdated(Refinement, contigs), next_id,
                                     new_refinement(contigs, metagenome_id))
    /\ next_id' = next_id + 1
    /\ last' = [op |-> "save_selections_to_refinement", metagenome_id |-> metagenome_id,
                headers |-> headers, ret |-> 0,
                before |-> current_refinements(Refinement, metagenome_id)]

save_selections_to_refinement(metagenome_id, headers) ==
    /\ save_selections(metagenome_id, headers)
    /\ UNCHANGED <<pipelineVars, pageVars, figVars, sessVars, buttonVars>>

\* variant: the initial_refinement filter of the select is missing
select_all_refinements(R, metagenome_id) ==
    {r \in DOMAIN R : R[r].metagenome_id = metagenome_id}

\* select(Refinement).where(metagenome_id == metagenome_id, initial_refinement == False)
select_user_refinements(R, metagenome_id) ==
    {r \in DOMAIN R : R[r].metagenome_id = metagenome_id /\ ~R[r].initial_refinement}

\* for refinement in refinements: session.delete(refinement)
session_delete(R, refinements) == [r \in DOMAIN R \ refinements |-> R[r]]

clear_refinements(metagenome_id) ==
    LET refinements == select_user_refinements(Refinement, metagenome_id)
    IN  /\ Refinement' = session_delete(Refinement, refinements)
        /\ last' = [op |-> "clear_refinements", metagenome_id |-> metagenome_id,
                    headers |-> {}, ret |-> Cardinality(refinements), before |-> {}]
        /\ UNCHANGED <<next_id, pipelineVars, pageVars, figVars, sessVars, buttonVars>>

\* pd.DataFrame(data).explode("contig"): one row per refinement and contig of it
refinements_dataframe(R, metagenome_id) ==
    {rc \in current_refinements(R, metagenome_id) \X ContigIds : rc[2] \in R[rc[1]].contigs}

get_refinements_dataframe(metagenome_id) ==
    /\ last' = [op |-> "get_refinements_dataframe", metagenome_id |-> metagenome_id,
                headers |-> {}, before |-> {},
                ret |-> Cardinality(refinements_dataframe(Refinement, metagenome_id))]
    /\ UNCHANGED <<Refinement, next_id, pipelineVars, pageVars, figVars, sessVars, buttonVars>>

has_user_refinements(metagenome_id) ==
    /\ last' = [op |-> "has_user_refinements", metagenome_id |-> metagenome_id, headers |-> {},
                ret |-> IF \E r \in DOMAIN Refinement :
                               /\ Refinement[r].metagenome_id = metagenome_id
                               /\ ~Refinement[r].initial_refinement
                               /\ ~Refinement[r].outdated
                        THEN 1 ELSE 0,
                before |-> {}]
    /\ UNCHANGED <<Refinement, next_id, pipelineVars, pageVars, figVars, sessVars, buttonVars>>

(***************************************************************************)
(* The k-mer embedding pipeline of automappa/tasks.py.  Table names are    *)
(* sequences of their dash-separated parts: "s1-metagenome" is             *)
(* <<"s1", "metagenome">>.                                                 *)
(***************************************************************************)
\* the longest embed_methods list of a call
MaxMethods == 3

\* the most runs after which a failed task would be sent again
MaxRuns == 2

EmbedMethods == {"umap", "bhsne"}

NormMethods == {"am_clr", "ilr"}

KmerSizes == {5}

UploadedTables == {<<"s1", "metagenome">>}

\* embed_methods: lists of two or more methods, repeats allowed.  (A group of one
\* task is not a parallel group; canvas libraries unroll it into a plain link.)
EmbedMethodLists ==
    UNION {[1..n -> EmbedMethods] : n \in 2..MaxMethods}

T(name) == [name |-> name, i |-> 0]

\* the i-th embed_kmer signature of the group
E(i) == [name |-> "embed_kmer", i |-> i]

Tasks ==
    {T("count_kmer"), T("normalize_kmer"), T("aggregate_embeddings")}
       \cup {E(i) : i \in 1..MaxMethods}

NoArgs == [table |-> <<>>, tables |-> <<>>, param |-> ""]

NotRun == [state |-> "PENDING", args |-> NoArgs, result |-> <<>>, runs |-> 0]

NoSubmission ==
    [metagenome_table |-> <<>>, kmer_size |-> 0, norm_method |-> "", embed_methods |-> <<>>]

\* str.replace on a table name: every "-old" part becomes "-new"
replace(name, old, new) ==
    [k \in DOMAIN name |-> IF k > 1 /\ name[k] = old THEN new ELSE name[k]]

\* embeddings_table = metagenome_table.replace("-metagenome", "-embeddings")
embeddings_table(metagenome_table) == replace(metagenome_table, "metagenome", "embeddings")

\* the group of the chain: one embed_kmer signature per entry of embed_methods
group(embed_methods) == {E(i) : i \in DOMAIN embed_methods}

\* the return value of a task body run on args
\*   count_kmer:           metagenome_table.replace("-metagenome", f"-{size}mers")
\*   normalize_kmer:       f"{counts_table}-{norm_method}"
\*   embed_kmer:           f"{norm_table}-{embed_method}"
\*   aggregate_embeddings: table_name
task_return(t, args) ==
    CASE t.name = "count_kmer" -> replace(args.table, "metagenome", args.param \o "mers")
      [] t.name = "normalize_kmer" -> Append(args.table, args.param)
      [] t.name = "embed_kmer" -> Append(args.table, args.param)
      [] OTHER -> args.table

\* the tables a task body reads with get_table / get_metagenome_seqrecords
task_reads(t, args) ==
    IF t.name = "aggregate_embeddings"
    THEN {args.tables[k] : k \in DOMAIN args.tables}
    ELSE {args.table}

\* variant: the pipeline is applied as a group, so the second stage is sent at once
first_messages_as_group(c) == {T("count_kmer"), T("normalize_kmer")}

\* kmer_pipeline(): applying the chain sends its first signature only
first_messages(c) == {T("count_kmer")}

\* the arguments a message for task t carries: the partial arguments of its
\* signature, preceded by the return value of the link before it
message_args(t, c, tk) ==
    CASE t.name = "count_kmer" ->
            [table |-> c.metagenome_table, tables |-> <<>>, param |-> ToString(c.kmer_size)]
      [] t.name = "normalize_kmer" ->
            [table |-> tk[T("count_kmer")].result, tables |-> <<>>, param |-> c.norm_method]
      [] t.name = "embed_kmer" ->
            [table |-> tk[T("normalize_kmer")].result, tables |-> <<>>,
             param |-> c.embed_methods[t.i]]
      [] OTHER ->
            [table |-> embeddings_table(c.metagenome_table),
             tables |-> [k \in DOMAIN c.embed_methods |-> tk[E(k)].result],
             param |-> ""]

\* variant: the body of the chord is sent as soon as one task of the group returned
chord_ready_on_first(c, tk) ==
    \E k \in DOMAIN c.embed_methods : tk[E(k)].state = "SUCCESS"

\* the chord counter: every task of the group has returned
chord_ready(c, tk) ==
    \A k \in DOMAIN c.embed_methods : tk[E(k)].state = "SUCCESS"

\* the signatures sent when task t has returned, tk being the task states after it
next_links(t, c, tk) ==
    CASE t.name = "count_kmer" -> {T("normalize_kmer")}
      [] t.name = "normalize_kmer" -> group(c.embed_methods)
      [] t.name = "embed_kmer" ->
            IF chord_ready(c, tk) THEN {T("aggregate_embeddings")} ELSE {}
      [] OTHER -> {}

\* apply_async: one message per signature of ts, with its arguments, joins the queue
send(b, ts, c, tk) ==
    [t \in Tasks |-> IF t \in ts THEN Append(b[t], message_args(t, c, tk)) ELSE b[t]]

preprocess_embeddings(metagenome_table, kmer_size, norm_method, embed_methods) ==
    /\ call = NoSubmission
    /\ call' = [metagenome_table |-> metagenome_table, kmer_size |-> kmer_size,
                norm_method |-> norm_method, embed_methods |-> embed_methods]
    /\ broker' = send(broker, first_messages(call'), call', task)
    /\ UNCHANGED <<task, tables, dbVars, pageVars, figVars, sessVars, buttonVars>>

\* a worker takes a message of task t off the queue and starts the task body
\* (task keeps one record per task id, so a second run waits for the first to end)
worker_receive(t) ==
    /\ broker[t] # <<>>
    /\ task[t].state # "STARTED"
    /\ broker' = [broker EXCEPT ![t] = Tail(@)]
    /\ task' = [task EXCEPT ![t] = [state |-> "STARTED", args |-> Head(broker[t]),
                                    result |-> <<>>, runs |-> @.runs + 1]]
    /\ UNCHANGED <<call, tables, dbVars, pageVars, figVars, sessVars, buttonVars>>

\* the task body returns: its table is written and the next links are sent
task_success(t) ==
    /\ task[t].state = "STARTED"
    /\ task_reads(t, task[t].args) \subseteq tables
    /\ LET ret == task_return(t, task[t].args)
           tk == [task EXCEPT ![t].state = "SUCCESS", ![t].result = ret]
       IN  /\ task' = tk
           /\ tables' = tables \cup {ret}
           /\ broker' = send(broker, next_links(t, call, tk), call, tk)
    /\ UNCHANGED <<call, dbVars, pageVars, figVars, sessVars, buttonVars>>

\* variant: a failed task is sent to the queue again
task_failure_retry(t) ==
    /\ task[t].state = "STARTED"
    /\ task' = [task EXCEPT ![t].state = "FAILURE"]
    /\ broker' = IF task[t].runs < MaxRuns
                  THEN [broker EXCEPT ![t] = Append(@, task[t].args)]
                  ELSE broker
    /\ UNCHANGED <<call, tables, dbVars, pageVars, figVars, sessVars, buttonVars>>

\* the task body raises: the task fails and nothing is sent
task_failure(t) ==
    /\ task[t].state = "STARTED"
    /\ task' = [task EXCEPT ![t].state = "FAILURE"]
    /\ UNCHANGED <<call, broker, tables, dbVars, pageVars, figVars, sessVars, buttonVars>>

\* no pipeline has been submitted
NoPipeline ==
    /\ call = NoSubmission
    /\ broker = [t \in Tasks |-> <<>>]
    /\ task = [t \in Tasks |-> NotRun]
    /\ tables = UploadedTables


(***************************************************************************)
(* The legacy refinement page (apps/mag_refinement.py).  Column names and  *)
(* cell values are sequences of their underscore-separated parts:          *)
(* "refinement_1" is <<"refinement", "1">>.  NaN is the empty sequence.    *)
(***************************************************************************)
\* the most refinement columns the store is let to grow to
MaxRefinementColumns == 2

PageContigs == {"c1", "c2", "c3"}

NaN == <<>>

\* None, for the store and for selectedData
NoStore == [null |-> TRUE, columns |-> <<>>, data |-> [c \in PageContigs |-> <<>>]]

NoSelection == [null |-> TRUE, points |-> {}]

\* selectedData: None, or a dict whose "points" may be an empty list
Selections == {NoSelection} \cup {[null |-> FALSE, points |-> ps] : ps \in SUBSET PageContigs}

\* the refinement-data of the layout: the columns of the input table whose name
\* contains "refinement_" or "cluster", indexed by contig
RefinementData ==
    { [null |-> FALSE, columns |-> <<<<"cluster">>>>,
       data |-> [c \in PageContigs |-> IF c = "c3" THEN <<NaN>> ELSE <<<<"bin", "1">>>>]],
      [null |-> FALSE, columns |-> <<>>, data |-> [c \in PageContigs |-> <<>>]],
      [null |-> FALSE, columns |-> <<<<"cluster">>, <<"refinement", "1">>>>,
       data |-> [c \in PageContigs |->
                   IF c = "c1" THEN <<<<"bin", "1">>, <<"refinement", "1">>>>
                   ELSE IF c = "c2" THEN <<<<"bin", "1">>, <<"bin", "1">>>>
                   ELSE <<<<"unclustered">>, <<"unclustered">>>>]] }

\* "refinement" in name
contains_refinement(name) == \E k \in DOMAIN name : name[k] = "refinement"

\* [col for col in pdf.columns if "refinement" in col]
refinement_cols(columns) == SelectSeq(columns, contains_refinement)

\* bin_df["cluster"] = "unclustered", or bin_df["cluster"].fillna("unclustered")
fill_cluster(bin_df) ==
    IF \E k \in DOMAIN bin_df.columns : bin_df.columns[k] = <<"cluster">>
    THEN [bin_df EXCEPT !.data =
            [c \in PageContigs |->
               [k \in DOMAIN bin_df.columns |->
                  IF bin_df.columns[k] = <<"cluster">> /\ bin_df.data[c][k] = NaN
                  THEN <<"unclustered">> ELSE bin_df.data[c][k]]]]
    ELSE [bin_df EXCEPT !.columns = Append(@, <<"cluster">>),
                        !.data = [c \in PageContigs |-> Append(@[c], <<"unclustered">>)]]

\* pdf.loc[contigs, group_name] = group_name
loc_assign(pdf, contigs, group_name) ==
    IF \E k \in DOMAIN pdf.columns : pdf.columns[k] = group_name
    THEN [pdf EXCEPT !.data =
            [c \in PageContigs |->
               [k \in DOMAIN pdf.columns |->
                  IF pdf.columns[k] = group_name /\ c \in contigs
                  THEN group_name ELSE pdf.data[c][k]]]]
    ELSE [pdf EXCEPT !.columns = Append(@, group_name),
                     !.data = [c \in PageContigs |->
                                 Append(@[c], IF c \in contigs THEN group_name ELSE NaN)]]

\* variant: the missing values of the new column are left as they are
fillna_nothing(pdf) == pdf

\* pdf.fillna(axis="columns", method="ffill"): a missing value takes the value of
\* the nearest column to its left that has one
fillna_ffill(pdf) ==
    [pdf EXCEPT !.data =
       [c \in PageContigs |->
          [k \in DOMAIN pdf.columns |->
             LET js == {j \in 1..k : pdf.data[c][j] # NaN}
             IN  IF js = {} THEN NaN
                 ELSE pdf.data[c][CHOOSE j \in js : \A i \in js : i <= j]]]]

\* variant: the group is numbered by the count of refinement columns, not one more
group_name_of_count(columns) == <<"refinement", ToString(Len(refinement_cols(columns)))>>

\* group_name = f"refinement_{len(refinement_cols) + 1}"
group_name_after(columns) == <<"refinement", ToString(Len(refinement_cols(columns)) + 1)>>

\* the callback on the store's inputs; the store is returned unchanged where the
\* callback raises PreventUpdate or fails
store_binning_refinement_selections(selected, refinement_data, toggle, intermediate_selections) ==
    IF selected.null /\ intermediate_selections.null
    THEN fill_cluster(refinement_data)
    ELSE IF ~toggle \/ selected.null
    THEN intermediate_selections
    ELSE IF intermediate_selections.null
    THEN intermediate_selections
    ELSE fillna_ffill(loc_assign(intermediate_selections, selected.points,
                                 group_name_after(intermediate_selections.columns)))

\* refine_df[refine_col].str.contains("refinement"): the mask has a missing entry
\* where the cell is missing
mask_has_nan(refine_df, k) == \E c \in PageContigs : refine_df.data[c][k] = NaN

\* the contigs the figure callback draws; the figure is left as it is where the
\* callback fails
scatterplot_2d_figure_callback(figure, refinement, hide) ==
    IF ~hide THEN PageContigs
    ELSE IF refinement.null THEN figure
    ELSE LET cols == {k \in DOMAIN refinement.columns :
                         contains_refinement(refinement.columns[k])}
         IN  IF cols = {} THEN PageContigs
             ELSE LET refine_col == CHOOSE k \in cols : \A j \in cols : j <= k
                  IN  IF mask_has_nan(refinement, refine_col) THEN figure
                      ELSE {c \in PageContigs :
                               ~contains_refinement(refinement.data[c][refine_col])}

\* the layout as served: no store, nothing selected, both toggles off
PageLayout ==
    /\ refinements_clusters_store = NoStore
    /\ selected_data = NoSelection
    /\ save_toggle = FALSE
    /\ hide_selection_toggle = FALSE
    /\ scatterplot_2d = {}
    /\ triggered = "layout"

\* the callbacks fired by a change of input `input` to the values sel, save, hide
fire_callbacks(input, refinement_data, sel, save, hide) ==
    LET store == IF input = "hide-selections-toggle"
                 THEN refinements_clusters_store
                 ELSE store_binning_refinement_selections(sel, refinement_data, save,
                                                          refinements_clusters_store)
    IN  /\ Len(refinement_cols(store.columns)) <= MaxRefinementColumns
        /\ refinements_clusters_store' = store
        /\ scatterplot_2d' =
              IF \/ input \in {"refinement-data", "hide-selections-toggle"}
                 \/ store # refinements_clusters_store
              THEN scatterplot_2d_figure_callback(scatterplot_2d, store, hide)
              ELSE scatterplot_2d
        /\ selected_data' = sel
        /\ save_toggle' = save
        /\ hide_selection_toggle' = hide
        /\ triggered' = input
        /\ UNCHANGED <<dbVars, pipelineVars, figVars, sessVars, buttonVars>>

\* the page is loaded: the initial callbacks run on the layout's refinement-data
page_load(refinement_data) ==
    /\ triggered = "layout"
    /\ fire_callbacks("refinement-data", refinement_data, selected_data, save_toggle,
                      hide_selection_toggle)

\* the user selects points of the scatterplot, or clears the selection
select_points(sel) ==
    /\ triggered # "layout"
    /\ sel.points \subseteq scatterplot_2d
    /\ fire_callbacks("scatterplot-2d", NoStore, sel, save_toggle, hide_selection_toggle)

toggle_save_selections ==
    /\ triggered # "layout"
    /\ fire_callbacks("save-selections-toggle", NoStore, selected_data, ~save_toggle,
                      hide_selection_toggle)

toggle_hide_selections ==
    /\ triggered # "layout"
    /\ fire_callbacks("hide-selections-toggle", NoStore, selected_data, save_toggle,
                      ~hide_selection_toggle)

(***************************************************************************)
(* Figure functions (automappa/utils/figures.py).  A string is the         *)
(* sequence of its words and separators: "gc_content" is                   *)
(* <<"gc", "_", "content">>.                                               *)
(***************************************************************************)
\* the longest data list metric_boxplot is called with
MaxData == 3

Metrics == {"coverage", "length"}

\* the pd.Series a trace may be drawn from, by name
SeriesNames == {"s1", "s2"}

\* an axis a trace does not set
NoSeries == ""

NoTitle == <<>>

NoFigureCall == [fn |-> "none", data |-> <<>>, horizontal |-> FALSE, axis_title |-> NoTitle]

NoFigureResult == [raised |-> "", traces |-> <<>>, title |-> NoTitle]

\* data: List[Tuple[str, pd.Series]]
DataLists == UNION {[1..n -> Metrics \X SeriesNames] : n \in 0..MaxData}

\* variant: the trace is drawn vertically whatever `horizontal` says
box_trace_vertical(metric, series, horizontal) ==
    [name |-> metric, x |-> NoSeries, y |-> series]

\* go.Box(x=series, name=metric) if horizontal else go.Box(y=series, name=metric)
box_trace(metric, series, horizontal) ==
    IF horizontal
    THEN [name |-> metric, x |-> series, y |-> NoSeries]
    ELSE [name |-> metric, x |-> NoSeries, y |-> series]

\* what metric_boxplot returns or raises
metric_boxplot_result(data, horizontal) ==
    IF data = <<>>
    THEN [NoFigureResult EXCEPT !.raised = "PreventUpdate"]
    ELSE [NoFigureResult EXCEPT !.traces =
             [k \in DOMAIN data |-> box_trace(data[k][1], data[k][2], horizontal)]]

metric_boxplot(data, horizontal) ==
    /\ fig_call' = [NoFigureCall EXCEPT !.fn = "metric_boxplot", !.data = data,
                                        !.horizontal = horizontal]
    /\ fig_result' = metric_boxplot_result(data, horizontal)
    /\ UNCHANGED <<dbVars, pipelineVars, pageVars, sessVars, buttonVars>>

\* the axis titles format_axis_title is called with: embedding columns
\* {kmer_size}mers-{norm_method}-{embed_method}_x_{dim} and annotation columns
AxisTitles ==
    {<<"5mers", "-", "am", "_", "clr", "-", m, "_", "x", "_", d>> :
        m \in {"umap", "bhsne", "pca"}, d \in {"1", "2"}}
    \cup {<<"5mers", "-", "ilr", "-", "umap", "_", "x", "_", "1">>,
          <<"gc", "_", "content">>, <<"marker", "_", "count">>, <<"x", "_", "1">>,
          <<"coverage">>, <<"length">>}

\* str.upper, word by word
upper(w) ==
    CASE w = "gc" -> "GC"
      [] w = "content" -> "CONTENT"
      [] w = "marker" -> "MARKER"
      [] w = "count" -> "COUNT"
      [] w = "x" -> "X"
      [] w = "umap" -> "UMAP"
      [] w = "bhsne" -> "BHSNE"
      [] w = "pca" -> "PCA"
      [] w = "am" -> "AM"
      [] w = "clr" -> "CLR"
      [] w = "ilr" -> "ILR"
      [] w = "coverage" -> "COVERAGE"
      [] w = "length" -> "LENGTH"
      [] w = "5mers" -> "5MERS"
      [] OTHER -> w

\* str.title, word by word
title(w) ==
    CASE w = "coverage" -> "Coverage"
      [] w = "length" -> "Length"
      [] w = "gc" -> "Gc"
      [] w = "content" -> "Content"
      [] w = "x" -> "X"
      [] w = "5mers" -> "5Mers"
      [] OTHER -> w

\* sub in s, for a separator-word-separator pattern such as "_x_"
contains3(s, a, b, c) ==
    \E k \in 1..(Len(s) - 2) : s[k] = a /\ s[k + 1] = b /\ s[k + 2] = c

\* sep in s
contains(s, sep) == \E k \in DOMAIN s : s[k] = sep

\* the position of the first sep of s at or after k, Len(s) + 1 if there is none
find(s, sep, k) ==
    LET ks == {j \in k..Len(s) : s[j] = sep}
    IN  IF ks = {} THEN Len(s) + 1 ELSE CHOOSE j \in ks : \A i \in ks : j <= i

RECURSIVE split(_, _)
\* s.split(sep)
split(s, sep) ==
    LET k == find(s, sep, 1)
    IN  IF k > Len(s) THEN <<s>>
        ELSE <<SubSeq(s, 1, k - 1)>> \o split(SubSeq(s, k + 1, Len(s)), sep)

\* s.split(sep, 1)
split_once(s, sep) ==
    LET k == find(s, sep, 1)
    IN  IF k > Len(s) THEN <<s>>
        ELSE <<SubSeq(s, 1, k - 1), SubSeq(s, k + 1, Len(s))>>

RECURSIVE join(_, _)
\* sep.join(words)
join(sep, words) ==
    IF Len(words) = 0 THEN <<>>
    ELSE IF Len(words) = 1 THEN words[1]
    ELSE words[1] \o <<sep>> \o join(sep, Tail(words))

\* method_titles.get(embed_method, embed_method.upper())
method_titles(embed_method) ==
    CASE embed_method = <<"bhsne">> -> <<"BH-tSNE">>
      [] embed_method = <<"sksne">> -> <<"(sklearn) BH-tSNE">>
      [] embed_method = <<"umap">> -> <<"UMAP">>
      [] embed_method = <<"trimap">> -> <<"TriMap">>
      [] embed_method = <<"densmap">> -> <<"DensMap">>
      [] OTHER -> [k \in DOMAIN embed_method |-> upper(embed_method[k])]

\* what format_axis_title returns or raises
format_axis_title_result(axis_title) ==
    IF contains3(axis_title, "_", "x", "_")
    THEN LET parts == split(axis_title, "-")
         IN  IF Len(parts) # 3
             THEN [NoFigureResult EXCEPT !.raised = "ValueError"]
             ELSE LET embed_method_embed_dim == split_once(parts[3], "_")
                      embed_method == method_titles(embed_method_embed_dim[1])
                      embed_dim == embed_method_embed_dim[2]
                  IN  [NoFigureResult EXCEPT !.title = embed_dim]
    ELSE IF contains(axis_title, "_")
    THEN LET col_list == split(axis_title, "_")
             metadata_title ==
                join(" ", [k \in DOMAIN col_list |->
                             [j \in DOMAIN col_list[k] |-> upper(col_list[k][j])]])
         IN  [NoFigureResult EXCEPT !.title =
                 IF axis_title = <<"gc", "_", "content">>
                 THEN <<"GC", " ", "Content">>
                 ELSE metadata_title]
    ELSE [NoFigureResult EXCEPT !.title = [k \in DOMAIN axis_title |-> title(axis_title[k])]]

format_axis_title(axis_title) ==
    /\ fig_call' = [NoFigureCall EXCEPT !.fn = "format_axis_title", !.axis_title = axis_title]
    /\ fig_result' = format_axis_title_result(axis_title)
    /\ UNCHANGED <<dbVars, pipelineVars, pageVars, sessVars, buttonVars>>

\* no figure function has been called
NoFigure ==
    /\ fig_call = NoFigureCall
    /\ fig_result = NoFigureResult

(***************************************************************************)
(* save_selections_to_refinement in concurrent database sessions: each     *)
(* call runs in a Session(engine) of its own, reads committed rows when it *)
(* loads them and writes its changes at session.commit().                  *)
(***************************************************************************)
Sessions == {1, 2}

Idle == [pc |-> "idle", metagenome_id |-> 0, headers |-> {}, contigs |-> {},
         pending |-> {}, dirty |-> {}]

NoSessions == session = [s \in Sessions |-> Idle]

\* the sessions with a save under way
Active == {s \in Sessions : session[s].pc # "idle"}

\* with Session(engine) as session: contigs = session.exec(select(Contig)...).all()
session_select_contigs(s, metagenome_id, headers) ==
    /\ session[s].pc = "idle"
    /\ next_id + Cardinality(Active) <= MaxRefinementId
    /\ LET contigs == select_contigs(metagenome_id, headers)
       IN  session' = [session EXCEPT ![s] =
                          [pc |-> "loop", metagenome_id |-> metagenome_id,
                           headers |-> headers, contigs |-> contigs,
                           pending |-> contigs, dirty |-> {}]]
    /\ UNCHANGED <<dbVars, pipelineVars, pageVars, figVars, buttonVars>>

\* one turn of the loop: contig.refinements is loaded from the committed rows and
\* each refinement of it is marked outdated in the session
session_mark_outdated(s, c) ==
    /\ session[s].pc = "loop"
    /\ c \in session[s].pending
    /\ session' = [session EXCEPT ![s].pending = @ \ {c},
                                  ![s].dirty = @ \cup contig_refinements(Refinement, c)]
    /\ UNCHANGED <<dbVars, pipelineVars, pageVars, figVars, buttonVars>>

\* session.add(refinement); session.commit(): the marked rows are updated and the
\* new row is inserted
session_commit(s) ==
    /\ session[s].pc = "loop"
    /\ session[s].pending = {}
    /\ Refinement' =
          session_add([r \in DOMAIN Refinement |->
                         IF r \in session[s].dirty
                         THEN [Refinement[r] EXCEPT !.outdated = TRUE]
                         ELSE Refinement[r]],
                      next_id,
                      new_refinement(session[s].contigs, session[s].metagenome_id))
    /\ next_id' = next_id + 1
    /\ last' = [op |-> "save_selections_to_refinement",
                metagenome_id |-> session[s].metagenome_id,
                headers |-> session[s].headers, ret |-> 0,
                before |-> current_refinements(Refinement, session[s].metagenome_id)]
    /\ session' = [session EXCEPT ![s] = Idle]
    /\ UNCHANGED <<pipelineVars, pageVars, figVars, buttonVars>>

(***************************************************************************)
(* The save button of the refinement page                                  *)
(* (pages/mag_refinement/components/save_selection_button.py)              *)
(***************************************************************************)
\* selectedData of the page: None, or a dict with the headers of its points
ButtonSelections ==
    {NoSelection} \cup {[null |-> FALSE, points |-> hs] : hs \in SUBSET Headers}

\* the layout as served: the button disabled with n_clicks = 0, nothing selected
ButtonLayout ==
    /\ n_clicks = 0
    /\ disabled = TRUE
    /\ button_selected_data = NoSelection
    /\ metagenome_id_store = 1
    /\ button_triggered = "layout"

\* toggle_disabled: return not selected_data
toggle_disabled(selected) == selected.null

\* return 0
n_clicks_returned(n) == 0

\* the callback on selectedData, the metagenome id store and n_clicks
save_button_callback(selected, metagenome_id, n) ==
    IF n = 0 \/ selected.null
    THEN /\ n_clicks' = n
         /\ UNCHANGED dbVars
    ELSE /\ save_selections(metagenome_id, selected.points)
         /\ n_clicks' = n_clicks_returned(n)

\* the selection of the scatterplot changes
button_select_points(selected) ==
    /\ button_selected_data' = selected
    /\ disabled' = toggle_disabled(selected)
    /\ save_button_callback(selected, metagenome_id_store, n_clicks)
    /\ button_triggered' = "selectedData"
    /\ UNCHANGED <<metagenome_id_store, pipelineVars, pageVars, figVars, sessVars>>

\* another metagenome is chosen
set_metagenome_id(metagenome_id) ==
    /\ metagenome_id_store' = metagenome_id
    /\ save_button_callback(button_selected_data, metagenome_id, n_clicks)
    /\ button_triggered' = "metagenome-id"
    /\ UNCHANGED <<button_selected_data, disabled, pipelineVars, pageVars, figVars, sessVars>>

\* the user clicks the button, which an enabled button lets them do
click_save_button ==
    /\ ~disabled
    /\ save_button_callback(button_selected_data, metagenome_id_store, n_clicks + 1)
    /\ button_triggered' = "n_clicks"
    /\ UNCHANGED <<button_selected_data, disabled, metagenome_id_store,
                   pipelineVars, pageVars, figVars, sessVars>>

InitPipeline ==
    /\ Refinement = <<>>
    /\ next_id = 1
    /\ last = NoCall
    /\ NoPipeline
    /\ PageLayout
    /\ NoFigure
    /\ NoSessions
    /\ ButtonLayout

NextPipeline ==
    \/ \E mt \in UploadedTables, k \in KmerSizes, n \in NormMethods, ms \in EmbedMethodLists :
          preprocess_embeddings(mt, k, n, ms)
    \/ \E t \in Tasks : worker_receive(t)
    \/ \E t \in Tasks : task_success(t)
    \/ \E t \in Tasks : task_failure(t)

SpecPipeline == InitPipeline /\ [][NextPipeline]_vars

InitPage ==
    /\ Refinement = <<>>
    /\ next_id = 1
    /\ last = NoCall
    /\ NoPipeline
    /\ PageLayout
    /\ NoFigure
    /\ NoSessions
    /\ ButtonLayout

NextPage ==
    \/ \E rd \in RefinementData : page_load(rd)
    \/ \E sel \in Selections : select_points(sel)
    \/ toggle_save_selections
    \/ toggle_hide_selections

SpecPage == InitPage /\ [][NextPage]_vars

InitFigures ==
    /\ Refinement = <<>>
    /\ next_id = 1
    /\ last = NoCall
    /\ NoPipeline
    /\ PageLayout
    /\ NoFigure
    /\ NoSessions
    /\ ButtonLayout

NextFigures ==
    \/ \E d \in DataLists, h \in BOOLEAN : metric_boxplot(d, h)
    \/ \E a \in AxisTitles : format_axis_title(a)

SpecFigures == InitFigures /\ [][NextFigures]_vars

InitSessions ==
    /\ \E t \in InitialTables :
          /\ Refinement = [r \in DOMAIN t |-> t[r]]
          /\ next_id = Len(t) + 1
    /\ last = NoCall
    /\ NoPipeline
    /\ PageLayout
    /\ NoFigure
    /\ NoSessions
    /\ ButtonLayout

NextSessions ==
    \/ \E s \in Sessions, m \in Metagenomes, h \in SUBSET Headers :
          session_select_contigs(s, m, h)
    \/ \E s \in Sessions, c \in ContigIds : session_mark_outdated(s, c)
    \/ \E s \in Sessions : session_commit(s)

SpecSessions == InitSessions /\ [][NextSessions]_vars

\* the page is opened on a metagenome with its initial binning loaded
InitButton ==
    /\ Refinement = <<InitialRefinement(1, {1, 2})>>
    /\ next_id = 2
    /\ last = NoCall
    /\ NoPipeline
    /\ PageLayout
    /\ NoFigure
    /\ NoSessions
    /\ ButtonLayout

NextButton ==
    \/ \E sel \in ButtonSelections : button_select_points(sel)
    \/ \E m \in Metagenomes : set_metagenome_id(m)
    \/ click_save_button

SpecButton == InitButton /\ [][NextButton]_vars

Init ==
    /\ \E t \in InitialTables :
          /\ Refinement = [r \in DOMAIN t |-> t[r]]
          /\ next_id = Len(t) + 1
    /\ last = NoCall
    /\ NoPipeline
    /\ PageLayout
    /\ NoFigure
    /\ NoSessions
    /\ ButtonLayout

Next ==
    \/ \E m \in Metagenomes, h \in SUBSET Headers : save_selections_to_refinement(m, h)
    \/ \E m \in Metagenomes : clear_refinements(m)
    \/ \E m \in Metagenomes : get_refinements_dataframe(m)
    \/ \E m \in Metagenomes : has_user_refinements(m)

Spec == Init /\ [][Next]_vars

(***************************************************************************)
(* Properties of the refinement table                                      *)
(***************************************************************************)
IsSave(c) == c.op = "save_selections_to_refinement"

IsClear(c) == c.op = "clear_refinements"

\* refinement r of table R holds a contig of metagenome m whose header is in hs
TouchedBy(R, r, m, hs) ==
    \E c \in R[r].contigs : Contig[c].metagenome_id = m /\ Contig[c].header \in hs

\* C1: after save_selections_to_refinement(metagenome_id, headers) commits, every
\* refinement that existed before the call and held a contig of that metagenome
\* whose header is in headers has outdated = TRUE.
C1_PriorRefinementsOutdated ==
    [][IsSave(last') =>
         \A r \in DOMAIN Refinement :
            TouchedBy(Refinement, r, last'.metagenome_id, last'.headers)
            => r \in DOMAIN Refinement' /\ Refinement'[r].outdated]_vars

\* a save has just marked an initial refinement that was current before no other save
C1_Witness ==
    /\ IsSave(last)
    /\ \E r \in DOMAIN Refinement :
          /\ Refinement[r].initial_refinement
          /\ Refinement[r].outdated
          /\ TouchedBy(Refinement, r, last.metagenome_id, last.headers)

\* C2: save_selections_to_refinement deletes nothing: every row that existed before
\* the call still exists with the same contigs, metagenome_id and initial_refinement,
\* and the table grows by exactly one row.
C2_SaveDeletesNothing ==
    [][IsSave(last') =>
         /\ \A r \in DOMAIN Refinement :
               /\ r \in DOMAIN Refinement'
               /\ Refinement'[r].contigs = Refinement[r].contigs
               /\ Refinement'[r].metagenome_id = Refinement[r].metagenome_id
               /\ Refinement'[r].initial_refinement = Refinement[r].initial_refinement
         /\ Cardinality(DOMAIN Refinement') = Cardinality(DOMAIN Refinement) + 1]_vars

\* a save has outdated a user refinement, which is still in the table with its contigs
C2_Witness ==
    /\ IsSave(last)
    /\ \E r \in DOMAIN Refinement :
          /\ ~Refinement[r].initial_refinement
          /\ Refinement[r].outdated
          /\ Refinement[r].contigs # {}

\* C3 as stated: over any sequence of data-source operations a refinement row,
\* once created, is never removed from the table.
C3_AppendOnly ==
    [][DOMAIN Refinement \subseteq DOMAIN Refinement']_vars

\* C3 as amended: save_selections_to_refinement and the read-only queries never
\* remove a row; clear_refinements(m) removes exactly the non-initial refinements
\* of metagenome m, so an initial refinement is never removed.
C3_AppendOnlyExceptClear ==
    [][/\ ~IsClear(last') => DOMAIN Refinement \subseteq DOMAIN Refinement'
       /\ IsClear(last') =>
            DOMAIN Refinement \ DOMAIN Refinement' =
               {r \in DOMAIN Refinement :
                   /\ Refinement[r].metagenome_id = last'.metagenome_id
                   /\ ~Refinement[r].initial_refinement}]_vars

\* clear_refinements has deleted user refinements next to an initial one that stays
C3_Witness ==
    /\ IsClear(last)
    /\ last.ret > 0
    /\ \E r \in DOMAIN Refinement :
          /\ Refinement[r].metagenome_id = last.metagenome_id
          /\ Refinement[r].initial_refinement

\* C7: the refinement created by save_selections_to_refinement(metagenome_id, headers)
\* has outdated = FALSE and initial_refinement = FALSE, carries metagenome_id, and
\* holds exactly the contigs of that metagenome whose header is in headers.
C7_NewRefinement ==
    [][IsSave(last') =>
         \E n \in DOMAIN Refinement' :
            /\ DOMAIN Refinement' \ DOMAIN Refinement = {n}
            /\ ~Refinement'[n].outdated
            /\ ~Refinement'[n].initial_refinement
            /\ Refinement'[n].metagenome_id = last'.metagenome_id
            /\ Refinement'[n].contigs =
                  {c \in ContigIds : /\ Contig[c].metagenome_id = last'.metagenome_id
                                     /\ Contig[c].header \in last'.headers}]_vars

\* a save whose headers match one contig of the metagenome, one contig of the other
\* metagenome and no contig at all has created a one-contig refinement
C7_Witness ==
    /\ IsSave(last)
    /\ last.metagenome_id = 1
    /\ last.headers = {"k1", "k9"}
    /\ Refinement[next_id - 1].contigs = {1}
    /\ ~Refinement[next_id - 1].outdated

\* every refinement holds only contigs of its own metagenome
OwnContigsOnly(R) ==
    \A r \in DOMAIN R : \A c \in R[r].contigs : Contig[c].metagenome_id = R[r].metagenome_id

\* C8: when every refinement holds only contigs of its own metagenome,
\* save_selections_to_refinement(A, headers) leaves every refinement of any other
\* metagenome B unchanged, also when headers match contig headers of B, and puts
\* no contig of B into the new refinement.
C8_OtherMetagenomeUnchanged ==
    [][(IsSave(last') /\ OwnContigsOnly(Refinement)) =>
         /\ \A r \in DOMAIN Refinement :
               Refinement[r].metagenome_id # last'.metagenome_id
               => r \in DOMAIN Refinement' /\ Refinement'[r] = Refinement[r]
         /\ \A n \in DOMAIN Refinement' \ DOMAIN Refinement :
               \A c \in Refinement'[n].contigs :
                  Contig[c].metagenome_id = last'.metagenome_id]_vars

\* a save for metagenome 1 named the header that contig 3 of metagenome 2 carries, and
\* the current refinement of metagenome 2 holding contig 3 is still current
C8_Witness ==
    /\ IsSave(last)
    /\ last.metagenome_id = 1
    /\ "k1" \in last.headers
    /\ \E r \in DOMAIN Refinement :
          /\ Refinement[r].metagenome_id = 2
          /\ 3 \in Refinement[r].contigs
          /\ ~Refinement[r].outdated

(***************************************************************************)
(* Properties of the embedding pipeline                                    *)
(***************************************************************************)
Started(t) == task[t].runs > 0

Returned(t) == task[t].state = "SUCCESS" /\ task[t].result # <<>>

\* C4: the stages of one pipeline run in the order count_kmer, normalize_kmer,
\* embed_kmer, aggregate_embeddings: normalize_kmer starts only after count_kmer
\* returned its counts table, no embed_kmer starts before normalize_kmer returned
\* its normalized table, and aggregate_embeddings starts only after the embed stage.
C4_StageOrder ==
    /\ Started(T("normalize_kmer")) =>
          /\ Returned(T("count_kmer"))
          /\ task[T("normalize_kmer")].args.table = task[T("count_kmer")].result
    /\ \A k \in 1..MaxMethods :
          Started(E(k)) =>
             /\ Returned(T("normalize_kmer"))
             /\ task[E(k)].args.table = task[T("normalize_kmer")].result
    /\ Started(T("aggregate_embeddings")) =>
          /\ Returned(T("normalize_kmer"))
          /\ \A k \in DOMAIN call.embed_methods : Started(E(k)) /\ Returned(E(k))

\* the last stage has returned the embeddings table of the submitted metagenome
C4_Witness ==
    /\ Returned(T("aggregate_embeddings"))
    /\ task[T("aggregate_embeddings")].result = <<"s1", "embeddings">>
    /\ <<"s1", "5mers", "ilr">> \in tables

\* C5: the embed_kmer tasks form a parallel group: in every interleaving and
\* completion order aggregate_embeddings runs only after all of them completed, and
\* it receives exactly one embed table name per embed method, all derived from the
\* same normalized table.
C5_ParallelGroup ==
    Started(T("aggregate_embeddings")) =>
       /\ \A k \in DOMAIN call.embed_methods : Returned(E(k))
       /\ DOMAIN task[T("aggregate_embeddings")].args.tables = DOMAIN call.embed_methods
       /\ \A k \in DOMAIN call.embed_methods :
             task[T("aggregate_embeddings")].args.tables[k] =
                Append(task[T("normalize_kmer")].result, call.embed_methods[k])

\* aggregate_embeddings runs on the three tables of a three-method group
C5_Witness ==
    /\ task[T("aggregate_embeddings")].state = "STARTED"
    /\ call.embed_methods = <<"umap", "bhsne", "umap">>
    /\ task[T("aggregate_embeddings")].args.tables =
          <<<<"s1", "5mers", "am_clr", "umap">>, <<"s1", "5mers", "am_clr", "bhsne">>,
            <<"s1", "5mers", "am_clr", "umap">>>>

\* C6: the pipeline has no retry or rescheduling of its own: for one call of
\* preprocess_embeddings each of count_kmer, normalize_kmer and aggregate_embeddings
\* is executed at most once and embed_kmer at most once per embed method.
C6_AtMostOnce ==
    \A t \in Tasks :
       /\ task[t].runs <= 1
       /\ (t.name = "embed_kmer" /\ t.i \notin DOMAIN call.embed_methods) => task[t].runs = 0

\* a task has failed after its single run and the pipeline has come to rest
C6_Witness ==
    /\ \E t \in Tasks : task[t].state = "FAILURE" /\ task[t].runs = 1
    /\ \A t \in Tasks : broker[t] = <<>> /\ task[t].state # "STARTED"
    /\ Returned(T("normalize_kmer"))

(***************************************************************************)
(* Properties of the legacy refinement page                                *)
(***************************************************************************)
\* the number of columns of the store whose name contains "refinement"
NumRefinementColumns(store) ==
    Cardinality({k \in DOMAIN store.columns :
                    \E j \in DOMAIN store.columns[k] : store.columns[k][j] = "refinement"})

SavedContigs(store) ==
    {c \in PageContigs :
        \E k \in DOMAIN store.columns :
           /\ \E j \in DOMAIN store.columns[k] : store.columns[k][j] = "refinement"
           /\ store.data[c][k] = store.columns[k]}

C11_MetricBoxplot ==
    fig_call.fn = "metric_boxplot" =>
       /\ fig_result.raised = "PreventUpdate" <=> fig_call.data = <<>>
       /\ fig_result.raised = "" =>
             /\ DOMAIN fig_result.traces = DOMAIN fig_call.data
             /\ \A k \in DOMAIN fig_call.data :
                   /\ fig_result.traces[k].name = fig_call.data[k][1]
                   /\ fig_call.horizontal =>
                         /\ fig_result.traces[k].x = fig_call.data[k][2]
                         /\ fig_result.traces[k].y = NoSeries
                   /\ ~fig_call.horizontal =>
                         /\ fig_result.traces[k].y = fig_call.data[k][2]
                         /\ fig_result.traces[k].x = NoSeries

\* a horizontal figure of two traces of the same metric drawn from different series
C11_Witness ==
    /\ fig_call.fn = "metric_boxplot"
    /\ fig_call.horizontal
    /\ fig_call.data = <<<<"length", "s2">>, <<"length", "s1">>>>
    /\ fig_result.traces[1].x = "s2"
    /\ fig_result.traces[2].x = "s1"

\* the title of an embedding column, as the docstring of format_axis_title describes
\* it: the display name of the embed method, then the x dimension
EmbeddingAxisTitle(axis_title) ==
    LET parts == split(axis_title, "-")
        embed == split_once(parts[3], "_")
    IN  method_titles(embed[1]) \o <<" ">> \o embed[2]

\* C12: format_axis_title turns an embedding column title
\* {kmer_size}mers-{norm_method}-{embed_method}_x_{dim} into the uppercase display
\* name of the embed method followed by the x dimension, "gc_content" into
\* "GC Content", any other title with "_" into its upper-cased words joined by
\* spaces, and a title without "_" into its title-cased form.
C12_FormatAxisTitle ==
    fig_call.fn = "format_axis_title" =>
       /\ fig_result.raised = ""
       /\ fig_result.title =
             IF contains3(fig_call.axis_title, "_", "x", "_")
             THEN EmbeddingAxisTitle(fig_call.axis_title)
             ELSE IF fig_call.axis_title = <<"gc", "_", "content">>
             THEN <<"GC", " ", "Content">>
             ELSE IF contains(fig_call.axis_title, "_")
             THEN join(" ", [k \in DOMAIN split(fig_call.axis_title, "_") |->
                               [j \in DOMAIN split(fig_call.axis_title, "_")[k] |->
                                  upper(split(fig_call.axis_title, "_")[k][j])]])
             ELSE [k \in DOMAIN fig_call.axis_title |-> title(fig_call.axis_title[k])]

(***************************************************************************)
(* Properties of the refinement versions                                   *)
(***************************************************************************)
\* the non-outdated refinements of table R that hold contig c
CurrentOf(R, c) == {r \in DOMAIN R : c \in R[r].contigs /\ ~R[r].outdated}

\* C13: starting with every contig in at most one non-outdated refinement, after any
\* sequence of save_selections_to_refinement and clear_refinements calls every contig
\* is in at most one non-outdated refinement, so get_refinements_dataframe lists
\* each contig header at most once.
C13_OneCurrentRefinement ==
    /\ \A c \in ContigIds : Cardinality(CurrentOf(Refinement, c)) <= 1
    /\ \A m \in Metagenomes : \A x, y \in refinements_dataframe(Refinement, m) :
          Contig[x[2]].header = Contig[y[2]].header => x = y

\* contig 1 was saved three times and is listed with its last refinement only
C13_Witness ==
    /\ IsSave(last)
    /\ Cardinality(contig_refinements(Refinement, 1)) >= 3
    /\ CurrentOf(Refinement, 1) = {next_id - 1}
    /\ <<next_id - 1, 1>> \in refinements_dataframe(Refinement, 1)

\* C14: a save never strips a contig of its current assignment: every contig in some
\* non-outdated refinement before save_selections_to_refinement is in some
\* non-outdated refinement after it, also a contig that was not selected but shared
\* a refinement with a selected contig.
C14_SaveKeepsAssignments ==
    [][IsSave(last') =>
         \A c \in ContigIds :
            CurrentOf(Refinement, c) # {} => CurrentOf(Refinement', c) # {}]_vars

\* C17 as stated: after save_selections_to_refinement(m, headers) and then
\* clear_refinements(m) the non-outdated refinements of m are those of before the
\* save; clear_refinements returns the number of non-initial refinements of m it
\* deleted and leaves initial refinements and other metagenomes' refinements.
C17_SaveClearRoundTrip ==
    [][(IsSave(last) /\ IsClear(last') /\ last'.metagenome_id = last.metagenome_id) =>
         /\ current_refinements(Refinement', last.metagenome_id) = last.before
         /\ last'.ret = Cardinality({r \in DOMAIN Refinement \ DOMAIN Refinement' :
                                        /\ Refinement[r].metagenome_id = last.metagenome_id
                                        /\ ~Refinement[r].initial_refinement})
         /\ \A r \in DOMAIN Refinement :
               (Refinement[r].initial_refinement
                  \/ Refinement[r].metagenome_id # last.metagenome_id)
               => r \in DOMAIN Refinement' /\ Refinement'[r] = Refinement[r]]_vars

\* C17 as amended: after save_selections_to_refinement(m, headers) and then
\* clear_refinements(m) the non-outdated refinements of m are the initial
\* refinements of m that were current before the save and hold no selected contig;
\* clear_refinements returns the number of non-initial refinements of m it deleted,
\* which are all of them, and leaves initial refinements and other metagenomes'
\* refinements as they are.
C17_SaveClearLeavesUntouchedInitial ==
    [][(IsSave(last) /\ IsClear(last') /\ last'.metagenome_id = last.metagenome_id) =>
         /\ current_refinements(Refinement', last.metagenome_id) =
               {r \in last.before :
                   /\ Refinement[r].initial_refinement
                   /\ ~TouchedBy(Refinement, r, last.metagenome_id, last.headers)}
         /\ last'.ret = Cardinality({r \in DOMAIN Refinement \ DOMAIN Refinement' :
                                        /\ Refinement[r].metagenome_id = last.metagenome_id
                                        /\ ~Refinement[r].initial_refinement})
         /\ \A r \in DOMAIN Refinement' :
               Refinement'[r].metagenome_id = last.metagenome_id
               => Refinement'[r].initial_refinement
         /\ \A r \in DOMAIN Refinement :
               (Refinement[r].initial_refinement
                  \/ Refinement[r].metagenome_id # last.metagenome_id)
               => r \in DOMAIN Refinement' /\ Refinement'[r] = Refinement[r]]_vars

\* clear_refinements(1) has deleted user refinements; of the two initial refinements
\* of metagenome 1 one was marked by a save and stays outdated, the other is current
C17_Witness ==
    /\ IsClear(last)
    /\ last.metagenome_id = 1
    /\ last.ret >= 1
    /\ \E r \in DOMAIN Refinement :
          /\ Refinement[r].metagenome_id = 1
          /\ Refinement[r].initial_refinement
          /\ Refinement[r].outdated
    /\ \E r \in DOMAIN Refinement :
          /\ Refinement[r].metagenome_id = 1
          /\ Refinement[r].initial_refinement
          /\ ~Refinement[r].outdated

(***************************************************************************)
(* Properties of concurrent saves and of the save button                   *)
(***************************************************************************)
\* C15: when two save_selections_to_refinement calls for the same metagenome with
\* overlapping selections run concurrently in separate sessions, then after both
\* commit, for every interleaving, no contig is in two non-outdated refinements.
C15_ConcurrentSavesOneCurrent ==
    Active = {} => \A c \in ContigIds : Cardinality(CurrentOf(Refinement, c)) <= 1

\* a save has been made in the step just taken
Saved == next_id' # next_id

\* C16: a refinement is saved only in response to a click of the save button: over
\* any sequence of selection changes, metagenome-id changes and clicks,
\* save_selections_to_refinement is called only when n_clicks > 0 and the selection
\* is non-empty, the callback resets n_clicks to 0 after each save, each click causes
\* at most one save, and a change of selection without a new click never saves.
C16_SaveOnlyOnClick ==
    [][/\ Saved =>
            /\ button_triggered' = "n_clicks" \/ n_clicks > 0
            /\ ~button_selected_data'.null
            /\ button_selected_data'.points # {}
            /\ last'.headers = button_selected_data'.points
            /\ last'.metagenome_id = metagenome_id_store'
            /\ n_clicks' = 0
            /\ next_id' = next_id + 1
       /\ (button_triggered' # "n_clicks" /\ n_clicks = 0) => ~Saved]_vars

====
